---------------------------- MODULE Spec2Model ----------------------------
(***************************************************************************)
(* Model of the childcare funding calculator (src/src/FundingCalculator.jsx)*)
(*                                                                         *)
(* Number representation.  The program computes with JavaScript doubles.   *)
(* The model uses exact fixed-point integers:                              *)
(*   - hours (weeklyPattern, hoursUsed, funded/booked/chargeable hours)    *)
(*     are integers counting hundredths of an hour (30h is 3000);          *)
(*   - provider charges (hourlyRate, mealCharge, consumablesCharge) are    *)
(*     integers counting pence (7.50 is 750);                              *)
(*   - the cost fields of a quote are hours times a rate, so they count    *)
(*     1/10000 of a pound (25.00 is 250000).                               *)
(* Whole numbers of the program (hoursPerYear, weeks, meals, ids, the term *)
(* week) are kept as they are.  The rounding error of double arithmetic is *)
(* not modelled; Math.round and Math.ceil are modelled on the exact value. *)
(*                                                                         *)
(* The calculations are functions of the component's state.  Each is       *)
(* checked under a specification whose initial states draw that state from *)
(* bounded sets of rosters, settings, requests and clock readings, and     *)
(* whose actions apply the calculation:                                    *)
(*   SpecFunded       calculateFundedWeeklyHours                           *)
(*   SpecQuote        generateQuotation                                    *)
(*   SpecOptimise     the optimisations computation                        *)
(*   SpecUnvalidated  all of them, on a roster that may hold an            *)
(*                    entitlement that is no key of the registry           *)
(***************************************************************************)
EXTENDS Integers, Sequences, FiniteSets, TLC

VARIABLES
    children,          \* useState(SAMPLE_CHILDREN): the roster, a sequence
    providerSettings,  \* useState({hourlyRate, operatingWeeks, ...})
    newChild,          \* useState: the draft of the Add Child form
    quotation,         \* useState: the quotation request
    now,               \* the clock: ticks since the term start 2025-01-06
    summary,           \* the value held by useMemo(..., [children])
    optimisations,     \* the value held by useMemo(..., [children, providerSettings])
    quote,             \* const quote = generateQuotation() of the last render
    calls              \* the applications logged: calculateFundedWeeklyHours,
                       \* getCurrentTermWeek and generateQuotation applied on
                       \* their own, and updateChildHours, each with its
                       \* arguments

vars == <<children, providerSettings, newChild, quotation, now,
          summary, optimisations, quote, calls>>

-----------------------------------------------------------------------------
(* Scales and program constants *)

\* Math.round(x * 100) / 100: hours are kept to hundredths.
Hundredths == 100

\* const weeksRemaining = 38 - currentWeek; Math.min(weeksDiff + 1, 38)
TermWeeks == 38

\* providerSettings.consumablesCharge * 5
ConsumableDays == 5

\* The clock ticks in milliseconds in the program (24 * 60 * 60 * 1000 a day);
\* the model's tick is a fraction of a day.
TicksPerDay == 2

Days == <<"mon", "tue", "wed", "thu", "fri">>

\* The registry.  Only the fields the calculations read are kept; description,
\* ageMin, ageMax and color are display data no calculation reads.
FUNDING_SCHEMES ==
    [ universal_15    |-> [name |-> "15 Hours Universal",
                           hoursPerYear |-> 570,  weeksTermTime |-> 38],
      eligible_2yr    |-> [name |-> "15 Hours (Eligible 2yr)",
                           hoursPerYear |-> 570,  weeksTermTime |-> 38],
      extended_30     |-> [name |-> "30 Hours Extended",
                           hoursPerYear |-> 1140, weeksTermTime |-> 38],
      expanded_under2 |-> [name |-> "15 Hours Expanded",
                           hoursPerYear |-> 570,  weeksTermTime |-> 38] ]

SchemeIds == DOMAIN FUNDING_SCHEMES

Pattern(mon, tue, wed, thu, fri) ==
    [mon |-> mon, tue |-> tue, wed |-> wed, thu |-> thu, fri |-> fri]

SAMPLE_CHILDREN ==
    << [id |-> 1, name |-> "Emma Thompson", dob |-> "2022-03-15",
        entitlement |-> "extended_30",
        weeklyPattern |-> Pattern(600, 600, 600, 600, 600),
        hoursUsed |-> 45600, stretchedOption |-> FALSE],
       [id |-> 2, name |-> "Oliver Smith", dob |-> "2023-06-20",
        entitlement |-> "eligible_2yr",
        weeklyPattern |-> Pattern(500, 500, 500, 0, 0),
        hoursUsed |-> 18000, stretchedOption |-> TRUE],
       [id |-> 3, name |-> "Sophia Williams", dob |-> "2024-01-10",
        entitlement |-> "expanded_under2",
        weeklyPattern |-> Pattern(400, 400, 400, 400, 0),
        hoursUsed |-> 9600, stretchedOption |-> FALSE] >>

InitialProviderSettings ==
    [hourlyRate |-> 750, operatingWeeks |-> 51,
     mealCharge |-> 350, consumablesCharge |-> 150]

EmptyNewChild ==
    [name |-> "", dob |-> "", entitlement |-> "universal_15",
     weeklyPattern |-> Pattern(0, 0, 0, 0, 0),
     hoursUsed |-> 0, stretchedOption |-> FALSE]

\* quotation.childId is null, NaN (parseInt of the placeholder option's "") or
\* a number; the three are kept apart by a kind.
NullId == [kind |-> "null"]
NaNId == [kind |-> "NaN"]
NumId(n) == [kind |-> "number", value |-> n]

InitialQuotation ==
    [childId |-> NullId, weeksToQuote |-> 4, includeMeals |-> TRUE,
     mealsPerWeek |-> 5, includeConsumables |-> TRUE]

-----------------------------------------------------------------------------
(* Results that are not a value of the computation *)

\* return null
Null == [tag |-> "null"]
\* Reading a property of undefined: the computation ends with a TypeError.
TypeError == [tag |-> "TypeError"]
\* Not computed yet (before the function has been applied).
Pending == [tag |-> "pending"]

\* A number that may be non-finite (a division by zero in JavaScript).
Finite(n) == [kind |-> "finite", value |-> n]
Infinity == [kind |-> "Infinity"]
NegInfinity == [kind |-> "-Infinity"]
NaN == [kind |-> "NaN"]

-----------------------------------------------------------------------------
(* Helper functions *)

MinOf(S) == CHOOSE x \in S : \A y \in S : x <= y

\* Faulty variant: the lower bound is not applied.
MaxUnclamped(a, b) == b

Max(a, b) == IF a >= b THEN a ELSE b
Min(a, b) == IF a <= b THEN a ELSE b

\* Math.round of p/q for q > 0: the nearest integer, halves going up.
MathRound(p, q) == (2 * p + q) \div (2 * q)

\* Faulty variant: Math.floor in place of Math.ceil.
MathCeilAsFloor(p, q) == p \div q

\* Math.ceil of p/q for q > 0.
MathCeil(p, q) == -((-p) \div q)

\* Math.ceil(p / q) as JavaScript evaluates it, a zero divisor included.
MathCeilDiv(p, q) ==
    IF q # 0 THEN Finite(MathCeil(p, q))
    ELSE IF p > 0 THEN Infinity
    ELSE IF p < 0 THEN NegInfinity
    ELSE NaN

\* Object.values(pattern).reduce((sum, hours) => sum + hours, 0)
RECURSIVE SumDays(_, _)
SumDays(pattern, n) ==
    IF n = 0 THEN 0 ELSE SumDays(pattern, n - 1) + pattern[Days[n]]

getWeeklyHours(pattern) == SumDays(pattern, Len(Days))

\* FUNDING_SCHEMES[scheme] is undefined for an id that is no key of the
\* registry, and reading funding.hoursPerYear then raises a TypeError.
LookupThrows(scheme) == scheme \notin DOMAIN FUNDING_SCHEMES

\* Faulty variant: the value is truncated to two decimals, not rounded.
Round2Truncated(hours, weeks) == (hours * Hundredths) \div weeks

\* Math.round((hours / weeks) * 100) / 100, in hundredths of an hour.
Round2(hours, weeks) == MathRound(hours * Hundredths, weeks)

\* Faulty variant: the stretched flag is not read; the year is always spread over
\* operatingWeeks.
calculateFundedWeeklyHoursAlwaysStretched(scheme, stretched, operatingWeeks) ==
    Round2(FUNDING_SCHEMES[scheme].hoursPerYear, operatingWeeks)

\* Faulty variant: the stretched path divides the wrong way round.
calculateFundedWeeklyHoursInverted(scheme, stretched, operatingWeeks) ==
    LET funding == FUNDING_SCHEMES[scheme] IN
    IF stretched
    THEN Round2(operatingWeeks * Hundredths, funding.hoursPerYear)
    ELSE Round2(funding.hoursPerYear, funding.weeksTermTime)

\* Defined for a scheme of the registry (LookupThrows(scheme) otherwise).
calculateFundedWeeklyHours(scheme, stretched, operatingWeeks) ==
    LET funding == FUNDING_SCHEMES[scheme] IN
    IF stretched
    THEN Round2(funding.hoursPerYear, operatingWeeks)
    ELSE Round2(funding.hoursPerYear, funding.weeksTermTime)

\* Faulty variant: the week number is not clamped to the term.
getCurrentTermWeekUnclamped(today) ==
    LET weeksDiff == today \div (7 * TicksPerDay)
    IN  weeksDiff + 1

\* weeksDiff = Math.floor((today - termStart) / (7 * 24 * 60 * 60 * 1000));
\* Math.max(1, Math.min(weeksDiff + 1, 38)).  today is the clock, in ticks
\* since termStart (negative before the term starts).
getCurrentTermWeek(today) ==
    LET weeksDiff == today \div (7 * TicksPerDay) IN
    Max(1, Min(weeksDiff + 1, TermWeeks))


-----------------------------------------------------------------------------
(* The derived values of a render *)

\* summary = useMemo(() => {...}, [children]).  children.forEach reads
\* scheme.hoursPerYear of every child, so one unknown entitlement ends the
\* whole computation with a TypeError.
RECURSIVE SumFunded(_, _)
SumFunded(ch, n) ==
    IF n = 0 THEN 0
    ELSE SumFunded(ch, n - 1) + FUNDING_SCHEMES[ch[n].entitlement].hoursPerYear

RECURSIVE SumUsed(_, _)
SumUsed(ch, n) ==
    IF n = 0 THEN 0 ELSE SumUsed(ch, n - 1) + ch[n].hoursUsed

\* Faulty variant: a child over its allocation counts as having none left.
RECURSIVE SumRemainingClamped(_, _)
SumRemainingClamped(ch, n) ==
    IF n = 0 THEN 0
    ELSE SumRemainingClamped(ch, n - 1)
         + Max(0, FUNDING_SCHEMES[ch[n].entitlement].hoursPerYear * Hundredths
                  - ch[n].hoursUsed)

RECURSIVE SumRemaining(_, _)
SumRemaining(ch, n) ==
    IF n = 0 THEN 0
    ELSE SumRemaining(ch, n - 1)
         + (FUNDING_SCHEMES[ch[n].entitlement].hoursPerYear * Hundredths
            - ch[n].hoursUsed)

\* Faulty variant: an empty roster counts as fully utilised.
AverageUtilisationEmptyFull(totalUsedHours, totalFundedHours) ==
    IF totalFundedHours > 0
    THEN MathRound(totalUsedHours, totalFundedHours)
    ELSE 100

\* totalFundedHours > 0 ? Math.round((totalUsedHours / totalFundedHours) * 100) : 0
AverageUtilisation(totalUsedHours, totalFundedHours) ==
    IF totalFundedHours > 0
    THEN MathRound(totalUsedHours, totalFundedHours)
    ELSE 0

\* totalFundedHours is in hours; totalUsedHours and totalRemainingHours are in
\* hundredths of an hour; averageUtilisation is a whole percentage.
computeSummary(ch) ==
    IF \E i \in 1..Len(ch) : LookupThrows(ch[i].entitlement) THEN TypeError
    ELSE
    LET totalFundedHours == SumFunded(ch, Len(ch))
        totalUsedHours == SumUsed(ch, Len(ch))
        totalRemainingHours == SumRemaining(ch, Len(ch))
    IN  [tag |-> "summary",
         totalChildren |-> Len(ch),
         totalFundedHours |-> totalFundedHours,
         totalUsedHours |-> totalUsedHours,
         totalRemainingHours |-> totalRemainingHours,
         averageUtilisation |->
             AverageUtilisation(totalUsedHours, totalFundedHours)]

\* Faulty variant: the threshold itself counts as under-utilised.
IsUnderUtilisedInclusive(projectedUsage, hoursPerYear) ==
    projectedUsage * 100 <= hoursPerYear * Hundredths * 85

\* projectedUsage < scheme.hoursPerYear * 0.85
IsUnderUtilised(projectedUsage, hoursPerYear) ==
    projectedUsage * 100 < hoursPerYear * Hundredths * 85

\* The suggestions one child adds, in the order the code pushes them.  The
\* figures a message embeds are kept as fields: Math.round(...) and
\* Math.ceil(...) as computed; the figures the code prints with toFixed(1) are
\* kept as the numbers handed to toFixed, in hundredths of an hour.
UnderUtilisation(child, weeksRemaining) ==
    LET scheme == FUNDING_SCHEMES[child.entitlement]
        weeklyBooked == getWeeklyHours(child.weeklyPattern)
        projectedUsage == child.hoursUsed + weeklyBooked * weeksRemaining
        shortfall == scheme.hoursPerYear * Hundredths - projectedUsage
    IN  IF IsUnderUtilised(projectedUsage, scheme.hoursPerYear)
        THEN << [type |-> "warning",
                 child |-> child.name,
                 title |-> "Under-utilisation projected",
                 message |-> [used |-> MathRound(projectedUsage, Hundredths),
                              total |-> scheme.hoursPerYear,
                              unused |-> MathRound(shortfall, Hundredths)],
                 recommendation |->
                     [increase |-> MathCeilDiv(shortfall,
                                               Hundredths * weeksRemaining)]] >>
        ELSE << >>

\* Faulty variant: the 2-hour tolerance band is closed at its upper end.
IsOverBookedInclusive(weeklyBooked, fundedWeekly) ==
    weeklyBooked >= fundedWeekly + 2 * Hundredths

\* weeklyBooked > fundedWeekly + 2
IsOverBooked(weeklyBooked, fundedWeekly) ==
    weeklyBooked > fundedWeekly + 2 * Hundredths

OverBooking(child, operatingWeeks) ==
    LET weeklyBooked == getWeeklyHours(child.weeklyPattern)
        fundedWeekly == calculateFundedWeeklyHours(
                            child.entitlement, child.stretchedOption, operatingWeeks)
    IN  IF IsOverBooked(weeklyBooked, fundedWeekly)
        THEN << [type |-> "info",
                 child |-> child.name,
                 title |-> "Additional hours being used",
                 message |-> [booked |-> weeklyBooked, funded |-> fundedWeekly],
                 recommendation |-> [additional |-> weeklyBooked - fundedWeekly]] >>
        ELSE << >>

\* Faulty variant: the stretched hours must cover all of the booked hours.
CoversBookedInFull(stretchedWeekly, weeklyBooked) ==
    stretchedWeekly >= weeklyBooked

\* stretchedWeekly >= weeklyBooked * 0.9
CoversBooked(stretchedWeekly, weeklyBooked) ==
    stretchedWeekly * 10 >= weeklyBooked * 9

Stretching(child, operatingWeeks) ==
    LET weeklyBooked == getWeeklyHours(child.weeklyPattern)
        fundedWeekly == calculateFundedWeeklyHours(
                            child.entitlement, child.stretchedOption, operatingWeeks)
        stretchedWeekly == calculateFundedWeeklyHours(
                               child.entitlement, TRUE, operatingWeeks)
    IN  IF /\ ~child.stretchedOption
           /\ weeklyBooked > fundedWeekly
           /\ CoversBooked(stretchedWeekly, weeklyBooked)
        THEN << [type |-> "success",
                 child |-> child.name,
                 title |-> "Stretching recommended",
                 message |-> [stretched |-> stretchedWeekly,
                              weeks |-> operatingWeeks],
                 recommendation |-> [text |-> "reduce parent charges"]] >>
        ELSE << >>

SuggestionsFor(child, ps, weeksRemaining) ==
    UnderUtilisation(child, weeksRemaining)
        \o OverBooking(child, ps.operatingWeeks)
        \o Stretching(child, ps.operatingWeeks)

RECURSIVE Suggestions(_, _, _, _)
Suggestions(ch, ps, weeksRemaining, n) ==
    IF n = 0 THEN << >>
    ELSE Suggestions(ch, ps, weeksRemaining, n - 1)
         \o SuggestionsFor(ch[n], ps, weeksRemaining)

\* optimisations = useMemo(() => {...}, [children, providerSettings]), with
\* today the clock at the time of the computation.
computeOptimisations(ch, ps, today) ==
    LET currentWeek == getCurrentTermWeek(today)
        weeksRemaining == TermWeeks - currentWeek
    IN  IF \E i \in 1..Len(ch) : LookupThrows(ch[i].entitlement) THEN TypeError
        ELSE [tag |-> "suggestions",
              list |-> Suggestions(ch, ps, weeksRemaining, Len(ch))]

\* !quotation.childId
Falsy(childId) ==
    childId.kind \in {"null", "NaN"} \/ (childId.kind = "number" /\ childId.value = 0)

\* Faulty variant: the first child of the roster is taken when none matches.
MatchingOrFirst(ch, childId) ==
    LET found == {i \in 1..Len(ch) : childId.kind = "number" /\ ch[i].id = childId.value}
    IN  IF found = {} /\ ch # << >> THEN {1} ELSE found

\* children.find(c => c.id === quotation.childId): the indices that match.
Matching(ch, childId) ==
    {i \in 1..Len(ch) : childId.kind = "number" /\ ch[i].id = childId.value}

\* quotation.includeMeals ? quotation.mealsPerWeek * providerSettings.mealCharge : 0
\* (pence times Hundredths: the unit of the cost fields)
WeeklyMeals(q, ps) ==
    IF q.includeMeals THEN q.mealsPerWeek * ps.mealCharge * Hundredths ELSE 0

\* Faulty variant: the consumables are charged for a single day.
WeeklyConsumablesOneDay(q, ps) ==
    IF q.includeConsumables THEN ps.consumablesCharge * Hundredths ELSE 0

\* quotation.includeConsumables ? providerSettings.consumablesCharge * 5 : 0
\* (pence times Hundredths: the unit of the cost fields)
WeeklyConsumables(q, ps) ==
    IF q.includeConsumables
    THEN ps.consumablesCharge * ConsumableDays * Hundredths
    ELSE 0

\* Faulty variant: the meals are left out of the weekly total.
WeeklyTotalNoMeals(weeklyChargeableHours, weeklyMeals, weeklyConsumables) ==
    weeklyChargeableHours + weeklyConsumables

\* weeklyChargeableHours + weeklyMeals + weeklyConsumables
WeeklyTotal(weeklyChargeableHours, weeklyMeals, weeklyConsumables) ==
    weeklyChargeableHours + weeklyMeals + weeklyConsumables

\* Faulty variant: the booked hours are subtracted from the funded hours.
ChargeableHoursOfFunded(weeklyBooked, fundedWeekly) ==
    Max(0, fundedWeekly - weeklyBooked)

\* Math.max(0, weeklyBooked - fundedWeekly)
ChargeableHours(weeklyBooked, fundedWeekly) ==
    Max(0, weeklyBooked - fundedWeekly)

\* The breakdown of a resolved child (the body after the two early returns).
QuoteBreakdown(child, q, ps) ==
    LET weeklyBooked == getWeeklyHours(child.weeklyPattern)
        fundedWeekly == calculateFundedWeeklyHours(
                            child.entitlement, child.stretchedOption, ps.operatingWeeks)
        chargeableHours == ChargeableHours(weeklyBooked, fundedWeekly)
        weeklySessionCost == weeklyBooked * ps.hourlyRate
        weeklyFundedValue == Min(weeklyBooked, fundedWeekly) * ps.hourlyRate
        weeklyChargeableHours == chargeableHours * ps.hourlyRate
        weeklyMeals == WeeklyMeals(q, ps)
        weeklyConsumables == WeeklyConsumables(q, ps)
        weeklyTotal == WeeklyTotal(weeklyChargeableHours, weeklyMeals, weeklyConsumables)
        periodTotal == weeklyTotal * q.weeksToQuote
    IN  [tag |-> "quote",
         child |-> child,
         weeklyBooked |-> weeklyBooked,
         fundedWeekly |-> fundedWeekly,
         chargeableHours |-> chargeableHours,
         weeklySessionCost |-> weeklySessionCost,
         weeklyFundedValue |-> weeklyFundedValue,
         weeklyChargeableHours |-> weeklyChargeableHours,
         weeklyMeals |-> weeklyMeals,
         weeklyConsumables |-> weeklyConsumables,
         weeklyTotal |-> weeklyTotal,
         periodTotal |-> periodTotal,
         weeks |-> q.weeksToQuote]

\* Faulty variant: the early return for a child that is not found is missing, so the
\* breakdown is taken of the first child of the roster.
generateQuotationNoFindCheck(ch, q, ps) ==
    IF Falsy(q.childId) \/ Len(ch) = 0 THEN Null
    ELSE IF LookupThrows(ch[1].entitlement) THEN TypeError
    ELSE QuoteBreakdown(ch[1], q, ps)

\* Faulty variant: the weeks quoted are limited to the weeks left in the term,
\* which are read from the clock.
generateQuotationToTermEnd(ch, q, ps) ==
    IF Falsy(q.childId) THEN Null
    ELSE IF Matching(ch, q.childId) = {} THEN Null
    ELSE
    LET child == ch[MinOf(Matching(ch, q.childId))]
        weeksLeft == TermWeeks - getCurrentTermWeek(now)
    IN  QuoteBreakdown(child, [q EXCEPT !.weeksToQuote = Min(@, weeksLeft)], ps)

\* A child with an unknown entitlement makes calculateFundedWeeklyHours read
\* a property of undefined: the call ends with a TypeError.
generateQuotation(ch, q, ps) ==
    IF Falsy(q.childId) THEN Null
    ELSE IF Matching(ch, q.childId) = {} THEN Null
    ELSE
    LET child == ch[MinOf(Matching(ch, q.childId))] IN
    IF LookupThrows(child.entitlement) THEN TypeError
    ELSE QuoteBreakdown(child, q, ps)

-----------------------------------------------------------------------------
(* Numbers as the doubles the code adds *)

\* A positive double is [exp, bits]: bits are the 53 bits of its significand,
\* the first of them 1 and of weight 2^exp.  Zero has no bits.  The hours in
\* hundredths used elsewhere are the decimal readings of such numbers.
MantissaBits == 53
ChunkBits == 15
DoubleZero == [exp |-> 0, bits |-> << >>]

Zeros(k) == [i \in 1..k |-> 0]

RECURSIVE IntOfBits(_, _)
IntOfBits(s, n) == IF n = 0 THEN 0 ELSE 2 * IntOfBits(s, n - 1) + s[n]

BitsOfInt(v, n) == [i \in 1..n |-> (v \div 2^(n - i)) % 2]

\* The sum of two bit strings of one length, a carry bit in front; added in
\* chunks of ChunkBits bits, ending at bit hi.
RECURSIVE AddChunks(_, _, _, _, _)
AddChunks(a, b, hi, carry, acc) ==
    LET lo == Max(1, hi - ChunkBits + 1)
        n == hi - lo + 1
        sum == IntOfBits(SubSeq(a, lo, hi), n) + IntOfBits(SubSeq(b, lo, hi), n) + carry
        low == BitsOfInt(sum % 2^n, n) \o acc
    IN  IF lo = 1 THEN <<sum \div 2^n>> \o low
        ELSE AddChunks(a, b, lo - 1, sum \div 2^n, low)

AddBits(a, b) == AddChunks(a, b, Len(a), 0, << >>)

\* Round to nearest, ties to even: sig holds the bits of a significand,
\* the first of them 1 and of weight 2^e, beyond the 53 that are kept.
RoundToDouble(sig, e) ==
    LET m == SubSeq(sig, 1, MantissaBits)
        rest == SubSeq(sig, MantissaBits + 1, Len(sig))
        guard == rest # << >> /\ rest[1] = 1
        sticky == \E i \in 2..Len(rest) : rest[i] = 1
        roundUp == guard /\ (sticky \/ m[MantissaBits] = 1)
        inc == AddBits(m, Zeros(MantissaBits - 1) \o <<1>>)
    IN  IF ~roundUp THEN [exp |-> e, bits |-> m]
        ELSE IF inc[1] = 1
        THEN [exp |-> e + 1, bits |-> SubSeq(inc, 1, MantissaBits)]
        ELSE [exp |-> e, bits |-> SubSeq(inc, 2, MantissaBits + 1)]

\* a + b of two doubles that are not negative.
DoubleAdd(a, b) ==
    IF a.bits = << >> THEN b
    ELSE IF b.bits = << >> THEN a
    ELSE
    LET hi == IF a.exp >= b.exp THEN a ELSE b
        lo == IF a.exp >= b.exp THEN b ELSE a
        d == hi.exp - lo.exp
        sum == AddBits(hi.bits \o Zeros(d), Zeros(d) \o lo.bits)
        lead == IF sum[1] = 1 THEN 1 ELSE 2
    IN  RoundToDouble(SubSeq(sum, lead, Len(sum)), hi.exp + 2 - lead)

\* The bits of a / b (0 <= a / b < 2, the first bit of weight 1), nine at a
\* time, then one bit that tells whether anything is left.
RECURSIVE QuotientBits(_, _, _, _)
QuotientBits(a, b, chunks, acc) ==
    IF chunks = 0 THEN acc \o <<IF a > 0 THEN 1 ELSE 0>>
    ELSE QuotientBits(2 * ((a * 2^8) % b), b, chunks - 1,
                      acc \o BitsOfInt((a * 2^8) \div b, 9))

\* The double nearest to n / d (what parseFloat makes of a decimal text), for
\* n >= 0 and d > 0.
DoubleOf(n, d) ==
    IF n = 0 THEN DoubleZero
    ELSE
    LET e == CHOOSE k \in -10..10 :
                 IF k >= 0 THEN d * 2^k <= n /\ n < d * 2^(k + 1)
                 ELSE d <= n * 2^(-k) /\ n * 2^(-k) < 2 * d
        a == IF e >= 0 THEN n ELSE n * 2^(-e)
        b == IF e >= 0 THEN d * 2^e ELSE d
    IN  RoundToDouble(QuotientBits(a, b, 6, << >>), e)

\* A pattern typed in hundredths of an hour, as the doubles it is stored as.
AsDoubles(pattern) ==
    [day \in DOMAIN pattern |-> DoubleOf(pattern[day], Hundredths)]

\* Faulty variant: the last day of the week is left out of the sum.
getWeeklyHoursOfDoublesToThursday(pattern) ==
    DoubleAdd(DoubleAdd(DoubleAdd(DoubleAdd(DoubleZero,
        pattern.mon), pattern.tue), pattern.wed), pattern.thu)

\* Object.values(pattern).reduce((sum, h) => sum + h, 0) on doubles: the days
\* are added in the order of the keys, from 0.
getWeeklyHoursOfDoubles(pattern) ==
    DoubleAdd(DoubleAdd(DoubleAdd(DoubleAdd(DoubleAdd(DoubleZero,
        pattern.mon), pattern.tue), pattern.wed), pattern.thu), pattern.fri)

\* x.toFixed(2) of a double below 64, in hundredths: the first twenty bits of
\* x decide it for a sum of values typed with two decimals.
ToHundredths(x) ==
    IF x.bits = << >> THEN 0
    ELSE (IntOfBits(SubSeq(x.bits, 1, 20), 20) * 2 * Hundredths + 2^(19 - x.exp))
             \div 2^(20 - x.exp)

\* Two patterns merged day by day.
MergedPattern(p, q) == [day \in DOMAIN p |-> DoubleAdd(p[day], q[day])]

-----------------------------------------------------------------------------
(* The inputs the calculations are applied to *)

\* The longest roster drawn, and the most applications logged in calls.
MaxRoster == 2
MaxCalls == 2

\* Date.now() of a clock reading: the term start is day 20094 of the epoch.
DateNow(today) == 20094 * TicksPerDay + today

WithHours(child, hours) == [child EXCEPT !.hoursUsed = hours]

\* A child as handleAddChild stores it: the draft of the form with the clock
\* as id, and the hours recorded for it since.
Added(today, name, entitlement, pattern, stretched, hours) ==
    [id |-> DateNow(today), name |-> name, dob |-> "2023-09-01",
     entitlement |-> entitlement, weeklyPattern |-> pattern,
     hoursUsed |-> hours, stretchedOption |-> stretched]

\* Children the roster can hold: the three samples with the hours the Record
\* Hours input can set, and children added through the form (before the
\* earliest clock reading drawn below).
ChildPool ==
    { WithHours(SAMPLE_CHILDREN[1], h) : h \in {0, 45600, 96899, 96900, 120000} }
    \cup { SAMPLE_CHILDREN[2] }
    \cup { WithHours(SAMPLE_CHILDREN[3], h) : h \in {9600, 48450} }
    \cup { Added(-12, "Ava", "universal_15", Pattern(750, 750, 0, 0, 0), FALSE, 0),
           Added(-11, "Ben", "extended_30",
                 Pattern(1000, 1000, 1000, 1000, 1000), TRUE, 45650),
           Added(-10, "Cal", "expanded_under2", Pattern(325, 0, 0, 0, 0), FALSE, 21710),
           Added(-9, "Dee", "universal_15", Pattern(0, 0, 0, 0, 0), TRUE, 0),
           Added(-8, "Fay", "universal_15", Pattern(500, 400, 400, 400, 0), FALSE, 0) }

\* One child per id, for the calculations that do not read hoursUsed.
QuotePool ==
    { c \in ChildPool : c.id \in {1, 2, 3} => c \in { SAMPLE_CHILDREN[i] : i \in 1..3 } }

DistinctIds(ch) ==
    \A i, j \in 1..Len(ch) : i # j => ch[i].id # ch[j].id

RostersOf(pool) ==
    { ch \in UNION { [1..n -> pool] : n \in 0..MaxRoster } : DistinctIds(ch) }

\* Clock readings: before the term, its first two weeks, week 28 (10 weeks
\* remaining), weeks 37 and 38, and long after the term.
ClockInstants ==
    { -1, 0, 7 * TicksPerDay - 1, 7 * TicksPerDay,
      27 * 7 * TicksPerDay, 37 * 7 * TicksPerDay - 1, 37 * 7 * TicksPerDay,
      95 * 7 * TicksPerDay }

\* Faulty variant: the slider reaches one week beyond each end.
SliderValuesWide == 38..53

\* Positions of the operating-weeks slider (min 39, max 52).
SliderValues == 39..52

QuoteSettings ==
    { [InitialProviderSettings EXCEPT !.operatingWeeks = w, !.hourlyRate = r] :
        w \in {39, 51}, r \in {0, 750} }

QuoteRequests ==
    [ childId : {NullId, NaNId} \cup { NumId(n) : n \in {1, 2, DateNow(-12), DateNow(-10), 99} },
      weeksToQuote : {1, 4, 52},
      includeMeals : BOOLEAN,
      mealsPerWeek : {0, 5},
      includeConsumables : BOOLEAN ]

OptimisationSettings ==
    { [InitialProviderSettings EXCEPT !.operatingWeeks = w] : w \in {39, 42, 43, 51, 52} }

-----------------------------------------------------------------------------
(* Specifications *)

\* The state after construction and the first render, the clock reading today.
Constructed(today) ==
    /\ children = SAMPLE_CHILDREN
    /\ providerSettings = InitialProviderSettings
    /\ newChild = EmptyNewChild
    /\ quotation = InitialQuotation
    /\ now = today
    /\ summary = computeSummary(children)
    /\ optimisations = computeOptimisations(children, providerSettings, now)
    /\ quote = generateQuotation(children, quotation, providerSettings)
    /\ calls = << >>

\* calculateFundedWeeklyHours applied to arguments of its domain of use.
InitFunded == Constructed(0)

\* One application: its arguments, and its result or the TypeError it ends with.
FundedCall(scheme, stretched, operatingWeeks) ==
    IF LookupThrows(scheme)
    THEN [tag |-> "TypeError", scheme |-> scheme, stretched |-> stretched,
          operatingWeeks |-> operatingWeeks]
    ELSE [tag |-> "returned", scheme |-> scheme, stretched |-> stretched,
          operatingWeeks |-> operatingWeeks,
          result |-> calculateFundedWeeklyHours(scheme, stretched, operatingWeeks)]

CallFundedWeeklyHours ==
    /\ Len(calls) < MaxCalls
    /\ \E scheme \in SchemeIds, stretched \in BOOLEAN, operatingWeeks \in SliderValues :
          calls' = Append(calls, FundedCall(scheme, stretched, operatingWeeks))
    /\ UNCHANGED <<children, providerSettings, newChild, quotation, now,
                   summary, optimisations, quote>>

NextFunded == CallFundedWeeklyHours

SpecFunded == InitFunded /\ [][NextFunded]_vars

\* generateQuotation applied to a roster, a request and settings.
InitQuote ==
    /\ children \in RostersOf(QuotePool)
    /\ providerSettings \in QuoteSettings
    /\ quotation \in QuoteRequests
    /\ newChild = EmptyNewChild
    /\ now = 0
    /\ summary = Pending
    /\ optimisations = Pending
    /\ quote = Pending
    /\ calls = << >>

GenerateQuotation ==
    /\ quote = Pending
    /\ quote' = generateQuotation(children, quotation, providerSettings)
    /\ UNCHANGED <<children, providerSettings, newChild, quotation, now,
                   summary, optimisations, calls>>

NextQuote == GenerateQuotation

SpecQuote == InitQuote /\ [][NextQuote]_vars

\* The optimisation computation applied to a roster, settings and a clock.
InitOptimise ==
    /\ children \in RostersOf(ChildPool)
    /\ providerSettings \in OptimisationSettings
    /\ quotation = InitialQuotation
    /\ newChild = EmptyNewChild
    /\ now \in ClockInstants
    /\ summary = Pending
    /\ optimisations = Pending
    /\ quote = Pending
    /\ calls = << >>

ComputeOptimisations ==
    /\ optimisations = Pending
    /\ optimisations' = computeOptimisations(children, providerSettings, now)
    /\ UNCHANGED <<children, providerSettings, newChild, quotation, now,
                   summary, quote, calls>>

NextOptimise == ComputeOptimisations

SpecOptimise == InitOptimise /\ [][NextOptimise]_vars

\* The summary applied to a roster.
InitSummary ==
    /\ children \in RostersOf(ChildPool)
    /\ providerSettings = InitialProviderSettings
    /\ quotation = InitialQuotation
    /\ newChild = EmptyNewChild
    /\ now = 0
    /\ summary = Pending
    /\ optimisations = Pending
    /\ quote = Pending
    /\ calls = << >>

ComputeSummary ==
    /\ summary = Pending
    /\ summary' = computeSummary(children)
    /\ UNCHANGED <<children, providerSettings, newChild, quotation, now,
                   optimisations, quote, calls>>

NextSummary == ComputeSummary

SpecSummary == InitSummary /\ [][NextSummary]_vars

\* getCurrentTermWeek applied to the clock, from two weeks before the term to
\* two weeks after its 38 weeks.
ClockRange == (-2 * 7 * TicksPerDay) .. (40 * 7 * TicksPerDay)

InitTermWeek == \E today \in ClockRange : Constructed(today)

CallGetCurrentTermWeek ==
    /\ Len(calls) < MaxCalls
    /\ calls' = Append(calls, [tag |-> "termWeek", today |-> now,
                               result |-> getCurrentTermWeek(now)])
    /\ UNCHANGED <<children, providerSettings, newChild, quotation, now,
                   summary, optimisations, quote>>

NextTermWeek == CallGetCurrentTermWeek

SpecTermWeek == InitTermWeek /\ [][NextTermWeek]_vars

\* The calculations applied to a roster that was not validated against the
\* registry: one child may carry an entitlement that is no key of it.
UnvalidatedPool ==
    { SAMPLE_CHILDREN[1], SAMPLE_CHILDREN[2],
      Added(-12, "Eve", "legacy_scheme", Pattern(500, 500, 500, 0, 0), FALSE, 0) }

InitUnvalidated ==
    /\ children \in RostersOf(UnvalidatedPool)
    /\ providerSettings = InitialProviderSettings
    /\ quotation \in { [InitialQuotation EXCEPT !.childId = id] :
                          id \in {NullId, NumId(1), NumId(DateNow(-12))} }
    /\ newChild = EmptyNewChild
    /\ now = 0
    /\ summary = Pending
    /\ optimisations = Pending
    /\ quote = Pending
    /\ calls = << >>

CallFundedUnvalidated ==
    /\ Len(calls) < MaxCalls
    /\ \E scheme \in SchemeIds \cup {"legacy_scheme"}, stretched \in BOOLEAN :
          calls' = Append(calls,
                     FundedCall(scheme, stretched, providerSettings.operatingWeeks))
    /\ UNCHANGED <<children, providerSettings, newChild, quotation, now,
                   summary, optimisations, quote>>

NextUnvalidated ==
    \/ CallFundedUnvalidated
    \/ ComputeSummary
    \/ ComputeOptimisations
    \/ GenerateQuotation

SpecUnvalidated == InitUnvalidated /\ [][NextUnvalidated]_vars

\* getWeeklyHours applied to the patterns of two children and to their merged
\* pattern, the hours as the doubles the code holds.
PatternPool ==
    { Pattern(0, 0, 0, 0, 0), Pattern(750, 750, 0, 0, 0),
      Pattern(600, 600, 600, 600, 600), Pattern(325, 0, 0, 0, 0),
      Pattern(225, 50, 75, 0, 100), Pattern(500, 400, 400, 400, 0),
      Pattern(10, 0, 0, 0, 0), Pattern(0, 20, 30, 0, 0),
      Pattern(10, 20, 30, 40, 50) }

InitWeeklyHours ==
    /\ \E p, q \in PatternPool :
          children = << Added(-12, "Ava", "universal_15", p, FALSE, 0),
                        Added(-11, "Ben", "universal_15", q, FALSE, 0) >>
    /\ providerSettings = InitialProviderSettings
    /\ quotation = InitialQuotation
    /\ newChild = EmptyNewChild
    /\ now = 0
    /\ summary = Pending
    /\ optimisations = Pending
    /\ quote = Pending
    /\ calls = << >>

CallGetWeeklyHours ==
    /\ Len(calls) < MaxCalls
    /\ LET p == AsDoubles(children[1].weeklyPattern)
           q == AsDoubles(children[2].weeklyPattern)
       IN  calls' = Append(calls,
                      [tag |-> "getWeeklyHours",
                       first |-> getWeeklyHoursOfDoubles(p),
                       second |-> getWeeklyHoursOfDoubles(q),
                       merged |-> getWeeklyHoursOfDoubles(MergedPattern(p, q))])
    /\ UNCHANGED <<children, providerSettings, newChild, quotation, now,
                   summary, optimisations, quote>>

NextWeeklyHours == CallGetWeeklyHours

SpecWeeklyHours == InitWeeklyHours /\ [][NextWeeklyHours]_vars

-----------------------------------------------------------------------------
(* The component's handlers *)

\* e.target.value of a number input: the text of a number (in hundredths), or a
\* text that is no number (the empty field), which parseFloat and parseInt
\* turn into NaN.
NumberText(n) == Finite(n)
NoNumberText == NaN

\* parseFloat(e.target.value)
parseFloat(text) == text

\* parseInt(e.target.value): the digits before the decimal point.
parseInt(text) ==
    IF text.kind # "finite" THEN NaN
    ELSE IF text.value >= 0 THEN Finite(text.value \div Hundredths)
    ELSE Finite(-((-text.value) \div Hundredths))

\* x || d: d replaces NaN and 0.
OrElse(x, d) == IF x.kind = "finite" /\ x.value # 0 THEN x.value ELSE d

\* What a render leaves on display after a handler has set state: summary is
\* recomputed when children was set, optimisations when children or
\* providerSettings was set, quote in every render.
Render(setChildren, setProviderSettings) ==
    /\ summary' = IF setChildren THEN computeSummary(children') ELSE summary
    /\ optimisations' =
           IF setChildren \/ setProviderSettings
           THEN computeOptimisations(children', providerSettings', now')
           ELSE optimisations
    /\ quote' = generateQuotation(children', quotation', providerSettings')

\* The most children the roster is grown to.
MaxChildren == 4

\* What is typed into the Add Child form.
NameInputs == {"Ava"}
DobInputs == {"2023-09-01"}
PatternDays == {"mon"}
PatternTexts == {NumberText(-200), NoNumberText}

\* What is typed into Record Hours: a negative number, and 1130 hours.
HoursTexts == {NumberText(-500), NumberText(113000)}

\* The clock readings of the session in which the roster is edited.
RosterInstants == {0, 1}

\* The clock goes on.
Tick(instants) ==
    /\ \E t \in instants : t > now /\ now' = t
    /\ UNCHANGED <<children, providerSettings, newChild, quotation,
                   summary, optimisations, quote, calls>>

SetName ==
    /\ \E v \in NameInputs : newChild' = [newChild EXCEPT !.name = v]
    /\ UNCHANGED <<children, providerSettings, quotation, now, calls>>
    /\ Render(FALSE, FALSE)

SetDob ==
    /\ \E v \in DobInputs : newChild' = [newChild EXCEPT !.dob = v]
    /\ UNCHANGED <<children, providerSettings, quotation, now, calls>>
    /\ Render(FALSE, FALSE)

\* Faulty variant: the select also offers a scheme that is not in the registry.
EntitlementOptionsStale == SchemeIds \cup {"legacy_scheme"}

\* The options of the Funding Entitlement select: the keys of the registry.
EntitlementOptions == DOMAIN FUNDING_SCHEMES

SetEntitlement ==
    /\ \E v \in EntitlementOptions : newChild' = [newChild EXCEPT !.entitlement = v]
    /\ UNCHANGED <<children, providerSettings, quotation, now, calls>>
    /\ Render(FALSE, FALSE)

SetPattern ==
    /\ \E day \in PatternDays, text \in PatternTexts :
          newChild' = [newChild EXCEPT
                          !.weeklyPattern[day] = OrElse(parseFloat(text), 0)]
    /\ UNCHANGED <<children, providerSettings, quotation, now, calls>>
    /\ Render(FALSE, FALSE)

\* [...children, {...newChild, id: Date.now()}]
WithNewChild(ch, draft, today) ==
    Append(ch, [id |-> DateNow(today), name |-> draft.name, dob |-> draft.dob,
                entitlement |-> draft.entitlement,
                weeklyPattern |-> draft.weeklyPattern,
                hoursUsed |-> draft.hoursUsed,
                stretchedOption |-> draft.stretchedOption])

handleAddChild ==
    /\ Len(children) < MaxChildren
    /\ IF newChild.name = "" \/ newChild.dob = ""
       THEN UNCHANGED vars
       ELSE /\ children' = WithNewChild(children, newChild, now)
            /\ newChild' = EmptyNewChild
            /\ UNCHANGED <<providerSettings, quotation, now, calls>>
            /\ Render(TRUE, FALSE)

\* children.filter(c => c.id !== id)
Without(ch, id) == SelectSeq(ch, LAMBDA c : c.id # id)

handleDeleteChild ==
    /\ \E i \in 1..Len(children) : children' = Without(children, children[i].id)
    /\ UNCHANGED <<providerSettings, newChild, quotation, now, calls>>
    /\ Render(TRUE, FALSE)

\* Faulty variant: the hours are stored as given.
StoredHoursUnclamped(hours) == hours

\* Math.max(0, hours)
StoredHours(hours) == Max(0, hours)

\* Faulty variant: the hours are stored for every child, whatever its id.
WithChildHoursOfAll(ch, id, hours) ==
    [k \in 1..Len(ch) |-> WithHours(ch[k], StoredHours(hours))]

\* Faulty variant: the hours stored are capped at the child's allocation.
WithChildHoursCapped(ch, id, hours) ==
    [k \in 1..Len(ch) |->
        IF ch[k].id = id
        THEN WithHours(ch[k],
                 Min(StoredHours(hours),
                     FUNDING_SCHEMES[ch[k].entitlement].hoursPerYear * Hundredths))
        ELSE ch[k]]

\* children.map(c => c.id === id ? { ...c, hoursUsed: Math.max(0, hours) } : c)
WithChildHours(ch, id, hours) ==
    [k \in 1..Len(ch) |->
        IF ch[k].id = id THEN WithHours(ch[k], StoredHours(hours)) ELSE ch[k]]

updateChildHours(id, hours) ==
    /\ Len(calls) < MaxCalls
    /\ children' = WithChildHours(children, id, hours)
    /\ calls' = Append(calls, [tag |-> "updateChildHours", id |-> id, hours |-> hours])
    /\ UNCHANGED <<providerSettings, newChild, quotation, now>>
    /\ Render(TRUE, FALSE)

\* The Record Hours input of a child.
RecordHours ==
    \E i \in 1..Len(children), text \in HoursTexts :
        updateChildHours(children[i].id, OrElse(parseFloat(text), 0))

\* The Add Week button of a child.
AddWeek ==
    \E i \in 1..Len(children) :
        updateChildHours(children[i].id,
                         children[i].hoursUsed + getWeeklyHours(children[i].weeklyPattern))

\* The roster edited: children added through the form and deleted, from the
\* sample roster, while the clock goes on.
InitRoster == Constructed(0)

NextRoster ==
    \/ SetName
    \/ SetDob
    \/ SetPattern
    \/ handleAddChild
    \/ handleDeleteChild
    \/ Tick(RosterInstants)

SpecRoster == InitRoster /\ [][NextRoster]_vars

\* The entitlement of the children added: the Funding Entitlement select of
\* the form, with adds and deletes, from the sample roster.
InitEntitlement == Constructed(0)

NextEntitlement ==
    \/ SetName
    \/ SetDob
    \/ SetEntitlement
    \/ handleAddChild
    \/ handleDeleteChild

SpecEntitlement == InitEntitlement /\ [][NextEntitlement]_vars

\* The hours recorded: Record Hours and Add Week on the children of the
\* roster, those added through the form included.
InitHours == Constructed(0)

NextHours ==
    \/ SetName
    \/ SetDob
    \/ handleAddChild
    \/ handleDeleteChild
    \/ RecordHours
    \/ AddWeek

SpecHours == InitHours /\ [][NextHours]_vars

\* The positions of the operating-weeks slider, as e.target.value gives them.
SliderTexts == { NumberText(w * Hundredths) : w \in SliderValues }

\* What is typed into Hourly Rate, Meal Charge and Weeks to Quote (the emptied
\* field among them).
RateTexts == {NumberText(800), NoNumberText}
MealChargeTexts == {NoNumberText}
WeeksTexts == {NumberText(5200), NumberText(-200), NoNumberText}

\* The clock readings of the session: term week 28, and term week 38.
SessionInstants == {27 * 7 * TicksPerDay, 37 * 7 * TicksPerDay}

SetOperatingWeeks ==
    /\ \E text \in SliderTexts :
          providerSettings' =
              [providerSettings EXCEPT !.operatingWeeks = parseInt(text).value]
    /\ UNCHANGED <<children, newChild, quotation, now, calls>>
    /\ Render(FALSE, TRUE)

SetHourlyRate ==
    /\ \E text \in RateTexts :
          providerSettings' =
              [providerSettings EXCEPT !.hourlyRate = OrElse(parseFloat(text), 0)]
    /\ UNCHANGED <<children, newChild, quotation, now, calls>>
    /\ Render(FALSE, TRUE)

SetMealCharge ==
    /\ \E text \in MealChargeTexts :
          providerSettings' =
              [providerSettings EXCEPT !.mealCharge = OrElse(parseFloat(text), 0)]
    /\ UNCHANGED <<children, newChild, quotation, now, calls>>
    /\ Render(FALSE, TRUE)

\* The value of quotation.childId that parseInt leaves.
AsChildId(x) == IF x.kind = "finite" THEN NumId(x.value) ELSE NaNId

\* The options of Select Child: the placeholder (value "") and every child.
SelectChild ==
    /\ \E text \in {NoNumberText}
                   \cup { NumberText(children[i].id * Hundredths) : i \in 1..Len(children) } :
          quotation' = [quotation EXCEPT !.childId = AsChildId(parseInt(text))]
    /\ UNCHANGED <<children, providerSettings, newChild, now, calls>>
    /\ Render(FALSE, FALSE)

SetWeeksToQuote ==
    /\ \E text \in WeeksTexts :
          quotation' = [quotation EXCEPT !.weeksToQuote = OrElse(parseInt(text), 1)]
    /\ UNCHANGED <<children, providerSettings, newChild, now, calls>>
    /\ Render(FALSE, FALSE)

\* A session on the sample roster: the provider settings and the quotation
\* request are edited while the clock goes on, from term week 28.
InitSession == Constructed(27 * 7 * TicksPerDay)

NextSession ==
    \/ SetOperatingWeeks
    \/ SetHourlyRate
    \/ SetMealCharge
    \/ SelectChild
    \/ SetWeeksToQuote
    \/ Tick(SessionInstants)

SpecSession == InitSession /\ [][NextSession]_vars

\* updateChildHours applied to ids the roster holds (a sample child, children
\* added at the first clock reading) and to an id it does not hold, while
\* children are added and deleted.
UpdateIds == {1, DateNow(0), 99}
UpdateHours == {-500, 2500}

CallUpdateChildHours ==
    \E id \in UpdateIds, hours \in UpdateHours : updateChildHours(id, hours)

InitUpdate == Constructed(0)

NextUpdate ==
    \/ SetName
    \/ SetDob
    \/ handleAddChild
    \/ handleDeleteChild
    \/ CallUpdateChildHours

SpecUpdate == InitUpdate /\ [][NextUpdate]_vars

\* Select Child while the roster changes: children are added and deleted,
\* the selected one among them, and the placeholder is selected again.
InitSelection == Constructed(0)

NextSelection ==
    \/ SetName
    \/ SetDob
    \/ handleAddChild
    \/ handleDeleteChild
    \/ SelectChild
    \/ Tick(RosterInstants)

SpecSelection == InitSelection /\ [][NextSelection]_vars

\* generateQuotation applied again and again, at different clock readings and
\* for different selections of Select Child: each application is logged with
\* the state it read and its result.
InitRepeat == Constructed(27 * 7 * TicksPerDay)

CallGenerateQuotation ==
    /\ Len(calls) < MaxCalls
    /\ calls' = Append(calls,
                   [tag |-> "generateQuotation", today |-> now,
                    children |-> children, providerSettings |-> providerSettings,
                    quotation |-> quotation,
                    result |-> generateQuotation(children, quotation, providerSettings)])
    /\ UNCHANGED <<children, providerSettings, newChild, quotation, now,
                   summary, optimisations, quote>>

NextRepeat ==
    \/ CallGenerateQuotation
    \/ SelectChild
    \/ Tick(SessionInstants)

SpecRepeat == InitRepeat /\ [][NextRepeat]_vars

-----------------------------------------------------------------------------
(* Properties of the quotation (SpecQuote) *)

\* The booked hours of a pattern, written out day by day.
BookedOf(child) ==
    child.weeklyPattern.mon + child.weeklyPattern.tue + child.weeklyPattern.wed
        + child.weeklyPattern.thu + child.weeklyPattern.fri

\* r is p/q rounded to the nearest integer, halves going up (q > 0).
IsRoundedHalfUp(r, p, q) == 2 * q * r - q <= 2 * p /\ 2 * p < 2 * q * r + q

\* r is the funded weekly value of the child at operatingWeeks, in hundredths.
IsFundedWeeklyOf(r, child, operatingWeeks) ==
    IsRoundedHalfUp(r,
        FUNDING_SCHEMES[child.entitlement].hoursPerYear * 100,
        IF child.stretchedOption THEN operatingWeeks ELSE 38)

\* C1: in every quote generateQuotation returns, weeklyBooked is the sum of the
\* child's pattern, fundedWeekly is the child's funded weekly value, and
\* chargeableHours is max(0, weeklyBooked - fundedWeekly): weeklyBooked -
\* fundedWeekly when that is positive, 0 whenever fundedWeekly >= weeklyBooked,
\* never negative.
C1_ChargeableHours ==
    quote.tag = "quote" =>
        /\ quote.weeklyBooked = BookedOf(quote.child)
        /\ IsFundedWeeklyOf(quote.fundedWeekly, quote.child,
                            providerSettings.operatingWeeks)
        /\ quote.chargeableHours >= 0
        /\ quote.fundedWeekly >= quote.weeklyBooked => quote.chargeableHours = 0
        /\ quote.fundedWeekly < quote.weeklyBooked =>
               quote.chargeableHours = quote.weeklyBooked - quote.fundedWeekly

\* A quote of a child booked for fewer hours than are funded: the clamp acts.
C1_Witness ==
    /\ quote.tag = "quote"
    /\ quote.fundedWeekly > quote.weeklyBooked
    /\ quote.chargeableHours = 0

\* C2: in every quote, weeklyTotal = chargeableHours * hourlyRate + (includeMeals
\* ? mealsPerWeek * mealCharge : 0) + (includeConsumables ? consumablesCharge * 5
\* : 0) and periodTotal = weeklyTotal * weeksToQuote; booked 30, funded 30, rate
\* 7.50, 5 meals at 3.50, consumables 1.50 a day and 4 weeks give 25.00 a week
\* and 100.00 for the period.
C2_Totals ==
    quote.tag = "quote" =>
        /\ quote.weeklyTotal =
               quote.chargeableHours * providerSettings.hourlyRate
               + (IF quotation.includeMeals
                  THEN quotation.mealsPerWeek * providerSettings.mealCharge * 100
                  ELSE 0)
               + (IF quotation.includeConsumables
                  THEN providerSettings.consumablesCharge * 5 * 100
                  ELSE 0)
        /\ quote.periodTotal = quote.weeklyTotal * quotation.weeksToQuote
        /\ ( /\ quote.weeklyBooked = 3000 /\ quote.fundedWeekly = 3000
             /\ providerSettings.hourlyRate = 750
             /\ quotation.includeMeals /\ quotation.mealsPerWeek = 5
             /\ providerSettings.mealCharge = 350
             /\ quotation.includeConsumables
             /\ providerSettings.consumablesCharge = 150
             /\ quotation.weeksToQuote = 4 )
           => quote.weeklyTotal = 250000 /\ quote.periodTotal = 1000000

\* The scenario of the claim: the quote of 25.00 a week, 100.00 for 4 weeks.
C2_Witness ==
    /\ quote.tag = "quote"
    /\ quote.weeklyBooked = 3000 /\ quote.fundedWeekly = 3000
    /\ providerSettings.hourlyRate = 750
    /\ quotation.includeMeals /\ quotation.mealsPerWeek = 5
    /\ quotation.includeConsumables
    /\ quotation.weeksToQuote = 4
    /\ quote.weeklyMeals = 175000 /\ quote.weeklyConsumables = 75000
    /\ quote.weeklyTotal = 250000 /\ quote.periodTotal = 1000000

IdsOf(ch) == { ch[i].id : i \in 1..Len(ch) }

\* C3: once generateQuotation has run, its result is null (and no error) when
\* quotation.childId is unset (null, or the NaN of the placeholder option) or
\* is the id of no child of the roster; otherwise it is a breakdown whose child
\* is the child of the roster with that id.
C3_NullOrChild ==
    quote # Pending =>
        IF quotation.childId.kind = "number"
           /\ quotation.childId.value \in IdsOf(children)
        THEN /\ quote.tag = "quote"
             /\ quote.child.id = quotation.childId.value
             /\ \E i \in 1..Len(children) : children[i] = quote.child
        ELSE quote = Null

\* A request for an id that no child of a non-empty roster has: the result is
\* null.
C3_Witness ==
    /\ quotation.childId.kind = "number"
    /\ Len(children) > 0
    /\ quotation.childId.value \notin IdsOf(children)
    /\ quote = Null

-----------------------------------------------------------------------------
(* Properties of calculateFundedWeeklyHours (SpecFunded) *)

Returned == { i \in 1..Len(calls) : calls[i].tag = "returned" }

\* C4: every application returns hoursPerYear divided by operatingWeeks when
\* stretched and by 38 when not, rounded half-up to two decimals; extended_30
\* gives 30.00 when not stretched and 22.35 when stretched over 51 weeks.
C4_FundedWeeklyRounded ==
    \A i \in Returned :
        LET c == calls[i] IN
        /\ IsRoundedHalfUp(c.result,
               FUNDING_SCHEMES[c.scheme].hoursPerYear * 100,
               IF c.stretched THEN c.operatingWeeks ELSE 38)
        /\ c.scheme = "extended_30" /\ ~c.stretched => c.result = 3000
        /\ c.scheme = "extended_30" /\ c.stretched /\ c.operatingWeeks = 51
               => c.result = 2235

\* extended_30 stretched over 51 weeks has been computed: 22.35.
C4_Witness ==
    \E i \in Returned :
        /\ calls[i].scheme = "extended_30" /\ calls[i].stretched
        /\ calls[i].operatingWeeks = 51 /\ calls[i].result = 2235

\* C5: two term-time (not stretched) applications for the same scheme return
\* the same value, round2(hoursPerYear / 38), whatever their operatingWeeks.
C5_TermTimeIgnoresOperatingWeeks ==
    \A i, j \in Returned :
        (calls[i].scheme = calls[j].scheme /\ ~calls[i].stretched /\ ~calls[j].stretched)
        => /\ calls[i].result = calls[j].result
           /\ IsRoundedHalfUp(calls[i].result,
                  FUNDING_SCHEMES[calls[i].scheme].hoursPerYear * 100, 38)

\* Two term-time applications for one scheme with the slider at its two ends.
C5_Witness ==
    \E i, j \in Returned :
        /\ calls[i].scheme = calls[j].scheme
        /\ ~calls[i].stretched /\ ~calls[j].stretched
        /\ calls[i].operatingWeeks = 39 /\ calls[j].operatingWeeks = 52
        /\ calls[i].result = calls[j].result

\* C6: of two stretched applications for the same scheme with operatingWeeks
\* W1 <= W2 in 39..52, the first returns at least what the second returns.
C6_StretchedNonIncreasing ==
    \A i, j \in Returned :
        ( /\ calls[i].scheme = calls[j].scheme
          /\ calls[i].stretched /\ calls[j].stretched
          /\ calls[i].operatingWeeks \in 39..52
          /\ calls[j].operatingWeeks \in 39..52
          /\ calls[i].operatingWeeks <= calls[j].operatingWeeks )
        => calls[i].result >= calls[j].result

\* Two stretched applications for one scheme, the second over more weeks and
\* returning strictly less.
C6_Witness ==
    \E i, j \in Returned :
        /\ calls[i].scheme = calls[j].scheme
        /\ calls[i].stretched /\ calls[j].stretched
        /\ calls[i].operatingWeeks < calls[j].operatingWeeks
        /\ calls[i].result > calls[j].result

-----------------------------------------------------------------------------
(* Lookup of an unknown scheme (SpecUnvalidated) *)

\* C7: with a child whose entitlement is no key of the registry, neither the
\* funded-hours calculation nor the summary, the optimisation computation or
\* the quotation ends with a thrown error: each returns a result.
C7_UnknownSchemeNeverThrows ==
    /\ \A i \in 1..Len(calls) : calls[i].tag = "returned"
    /\ summary # Pending => summary.tag = "summary"
    /\ optimisations # Pending => optimisations.tag = "suggestions"
    /\ quote # Pending => quote.tag \in {"quote", "null"}

-----------------------------------------------------------------------------
(* Properties of the optimisation computation (SpecOptimise) *)

WeeksRemaining == 38 - getCurrentTermWeek(now)

\* The projected annual usage of a child, in hundredths of an hour.
ProjectedOf(child) == child.hoursUsed + BookedOf(child) * WeeksRemaining

\* The shortfall of a child against its scheme, in hundredths of an hour.
ShortfallOf(child) ==
    FUNDING_SCHEMES[child.entitlement].hoursPerYear * 100 - ProjectedOf(child)

\* The under-utilisation suggestions emitted for a child's name.
WarningsFor(name) ==
    { i \in 1..Len(optimisations.list) :
        optimisations.list[i].type = "warning" /\ optimisations.list[i].child = name }

\* k is p/q rounded up to an integer (q > 0).
IsCeiling(k, p, q) == (k - 1) * q < p /\ p <= k * q

\* C8: no under-utilisation suggestion carries a non-finite recommended
\* increase; with no weeks remaining (term week 38) the division by
\* weeksRemaining is guarded.
C8_RecommendedIncreaseFinite ==
    optimisations.tag = "suggestions" =>
        \A i \in 1..Len(optimisations.list) :
            optimisations.list[i].type = "warning" =>
                optimisations.list[i].recommendation.increase.kind = "finite"

\* C9: a child gets an under-utilisation (warning) suggestion exactly when its
\* projected usage hoursUsed + weeklyBooked * (38 - currentTermWeek) is below
\* 85% of its scheme's hoursPerYear, and then exactly one.
C9_UnderUtilisationIff ==
    optimisations.tag = "suggestions" =>
        \A k \in 1..Len(children) :
            LET c == children[k] IN
            /\ WarningsFor(c.name) # {}
                   <=> ProjectedOf(c) < 85 * FUNDING_SCHEMES[c.entitlement].hoursPerYear
            /\ Cardinality(WarningsFor(c.name)) <= 1

\* A roster with a child exactly at the 85% threshold (no suggestion) beside a
\* child below it (a suggestion).
C9_Witness ==
    /\ optimisations.tag = "suggestions"
    /\ \E k \in 1..Len(children) :
          /\ ProjectedOf(children[k])
                 = 85 * FUNDING_SCHEMES[children[k].entitlement].hoursPerYear
          /\ WarningsFor(children[k].name) = {}
    /\ \E k \in 1..Len(children) : WarningsFor(children[k].name) # {}

\* C10 as stated: with weeks remaining, the shortfall an under-utilisation
\* suggestion reports is hoursPerYear - projectedUsage, and its recommended
\* increase is ceil(shortfall / weeksRemaining).
C10_ReportsExactShortfall ==
    (optimisations.tag = "suggestions" /\ WeeksRemaining > 0) =>
        \A k \in 1..Len(children) : \A i \in WarningsFor(children[k].name) :
            LET w == optimisations.list[i] IN
            /\ w.message.unused * 100 = ShortfallOf(children[k])
            /\ w.recommendation.increase.kind = "finite"
            /\ IsCeiling(w.recommendation.increase.value,
                         ShortfallOf(children[k]), 100 * WeeksRemaining)

\* C10 as amended: with weeks remaining, the suggestion reports the shortfall
\* hoursPerYear - projectedUsage rounded to whole hours (halves up), and
\* recommends ceil(shortfall / weeksRemaining) of the unrounded shortfall; for
\* hoursUsed 456, hoursPerYear 1140, 30 booked hours and 10 weeks remaining
\* these are 384 and 39.
C10_ReportsRoundedShortfall ==
    (optimisations.tag = "suggestions" /\ WeeksRemaining > 0) =>
        \A k \in 1..Len(children) : \A i \in WarningsFor(children[k].name) :
            LET w == optimisations.list[i] IN
            /\ IsRoundedHalfUp(w.message.unused, ShortfallOf(children[k]), 100)
            /\ w.recommendation.increase.kind = "finite"
            /\ IsCeiling(w.recommendation.increase.value,
                         ShortfallOf(children[k]), 100 * WeeksRemaining)
            /\ ( /\ children[k].hoursUsed = 45600
                 /\ FUNDING_SCHEMES[children[k].entitlement].hoursPerYear = 1140
                 /\ BookedOf(children[k]) = 3000
                 /\ WeeksRemaining = 10 )
               => w.message.unused = 384 /\ w.recommendation.increase.value = 39

\* The scenario of the claim beside a child with a fractional shortfall
\* (320.4 hours, reported as 320, and 33 hours a week recommended).
C10_Witness ==
    /\ optimisations.tag = "suggestions"
    /\ WeeksRemaining = 10
    /\ \E i \in 1..Len(optimisations.list) :
          /\ optimisations.list[i].type = "warning"
          /\ optimisations.list[i].child = "Emma Thompson"
          /\ optimisations.list[i].message.unused = 384
          /\ optimisations.list[i].recommendation.increase = Finite(39)
    /\ \E k \in 1..Len(children) :
          /\ ShortfallOf(children[k]) = 32040
          /\ \E i \in WarningsFor(children[k].name) :
                /\ optimisations.list[i].message.unused = 320
                /\ optimisations.list[i].recommendation.increase = Finite(33)

\* The suggestions of a type emitted for a child's name.
SuggestionsOfType(type, name) ==
    { i \in 1..Len(optimisations.list) :
        optimisations.list[i].type = type /\ optimisations.list[i].child = name }

\* The funded weekly value of a child under its own stretched flag.
FundedOf(child) ==
    calculateFundedWeeklyHours(child.entitlement, child.stretchedOption,
                               providerSettings.operatingWeeks)

C12_StretchingIff ==
    optimisations.tag = "suggestions" =>
        \A k \in 1..Len(children) :
            LET c == children[k]
                termTime == calculateFundedWeeklyHours(
                                c.entitlement, FALSE, providerSettings.operatingWeeks)
                stretched == calculateFundedWeeklyHours(
                                 c.entitlement, TRUE, providerSettings.operatingWeeks)
            IN  /\ SuggestionsOfType("success", c.name) # {}
                       <=> ( /\ ~c.stretchedOption
                             /\ BookedOf(c) > termTime
                             /\ 10 * stretched >= 9 * BookedOf(c) )
                /\ c.stretchedOption => SuggestionsOfType("success", c.name) = {}

\* A roster with a child that gets the suggestion beside a stretched child
\* that meets the two numeric conditions and gets none.
C12_Witness ==
    /\ optimisations.tag = "suggestions"
    /\ \E k \in 1..Len(children) :
          SuggestionsOfType("success", children[k].name) # {}
    /\ \E k \in 1..Len(children) :
          /\ children[k].stretchedOption
          /\ BookedOf(children[k]) > FundedOf(children[k])
          /\ 10 * FundedOf(children[k]) >= 9 * BookedOf(children[k])
          /\ SuggestionsOfType("success", children[k].name) = {}

-----------------------------------------------------------------------------
(* Properties of the summary (SpecSummary) *)

RECURSIVE SeqSum(_)
SeqSum(s) == IF s = << >> THEN 0 ELSE Head(s) + SeqSum(Tail(s))

\* The allocation of the roster in hours, and its usage in hundredths.
AllocatedTotal ==
    SeqSum([k \in 1..Len(children) |->
                FUNDING_SCHEMES[children[k].entitlement].hoursPerYear])

UsedTotal == SeqSum([k \in 1..Len(children) |-> children[k].hoursUsed])

-----------------------------------------------------------------------------
(* Properties of the term week (SpecTermWeek) *)

\* The whole weeks from the term start to a clock reading (negative before it).
WeeksSince(today) ==
    CHOOSE k \in -3..41 :
        k * 7 * TicksPerDay <= today /\ today < (k + 1) * 7 * TicksPerDay

\* C19: getCurrentTermWeek returns floor((today - termStart) / 7 days) + 1
\* clamped to [1, 38]: 1 for every date before the term start or in its first
\* week, 38 for every date 37 or more weeks after it; weeksRemaining
\* = 38 - currentWeek is then always in 0..37.
C19_TermWeekClamped ==
    \A i \in 1..Len(calls) :
        calls[i].tag = "termWeek" =>
            LET week == WeeksSince(calls[i].today) + 1
                currentWeek == calls[i].result
            IN  /\ currentWeek = IF week < 1 THEN 1 ELSE IF week > 38 THEN 38 ELSE week
                /\ calls[i].today < 7 * TicksPerDay => currentWeek = 1
                /\ calls[i].today >= 37 * 7 * TicksPerDay => currentWeek = 38
                /\ 38 - currentWeek \in 0..37

\* The clock more than 38 weeks after the term start: the week is held at 38.
C19_Witness ==
    \E i \in 1..Len(calls) :
        /\ calls[i].tag = "termWeek"
        /\ calls[i].today >= 38 * 7 * TicksPerDay
        /\ calls[i].result = 38

-----------------------------------------------------------------------------
(* Properties of the roster and of the hours recorded (SpecHours, SpecRoster) *)

\* The allocation of a child, in hundredths of an hour.
AllocationOf(child) == FUNDING_SCHEMES[child.entitlement].hoursPerYear * 100

\* C13: in every state reached from the sample roster by adding children,
\* deleting children and updating hours, every child's hoursUsed is at least 0.
C13_HoursUsedNonNegative ==
    \A k \in 1..Len(children) : children[k].hoursUsed >= 0

\* A negative number has just been recorded for a child, which stands at 0,
\* in a roster that holds an added child.
C13_Witness ==
    /\ calls # << >>
    /\ calls[Len(calls)].tag = "updateChildHours"
    /\ calls[Len(calls)].hours < 0
    /\ \E k \in 1..Len(children) :
          children[k].id = calls[Len(calls)].id /\ children[k].hoursUsed = 0
    /\ \E k \in 1..Len(children) : children[k].id = DateNow(0)

\* C14: in every reachable state the ids of the roster are pairwise distinct,
\* also after children were added (their ids read from the clock) and deleted.
C14_IdsPairwiseDistinct ==
    \A i, j \in 1..Len(children) : i < j => children[i].id # children[j].id

\* C17: hoursUsed is not capped at the allocation: an updateChildHours(id, h)
\* with h above the hoursPerYear of a child with that id leaves that child
\* with hoursUsed = h, and so a child can stand above its allocation.
C17_HoursNotCapped ==
    [][ Len(calls') > Len(calls) =>
          LET call == calls'[Len(calls')] IN
          call.tag = "updateChildHours" =>
              /\ Len(children') = Len(children)
              /\ \A k \in 1..Len(children) :
                    (children[k].id = call.id /\ call.hours > AllocationOf(children[k]))
                        => children'[k].hoursUsed = call.hours ]_vars

\* Emma Thompson at 1160 of 1140 hours: Add Week (30 hours) pressed at 1130.
C17_Witness ==
    /\ calls # << >>
    /\ calls[Len(calls)] = [tag |-> "updateChildHours", id |-> 1, hours |-> 116000]
    /\ \E k \in 1..Len(children) :
          /\ children[k].id = 1
          /\ children[k].hoursUsed = 116000
          /\ children[k].hoursUsed > AllocationOf(children[k])

-----------------------------------------------------------------------------
(* Properties of a session (SpecSession) *)

\* C18: in every reachable state providerSettings.operatingWeeks is an
\* integer from 39 to 52: at the start (51) and after every sequence of
\* settings updates.
C18_OperatingWeeksInRange ==
    providerSettings.operatingWeeks \in 39..52

\* The slider at its lowest position, after the hourly rate was emptied.
C18_Witness ==
    /\ providerSettings.operatingWeeks = 39
    /\ providerSettings.hourlyRate = 0

\* C20: nothing on display is stale: what a render leaves on display (the
\* summary, the optimisation suggestions and the quote) is what the current
\* children, settings, quotation request and term week give when computed
\* afresh.  Stated of the states that a render has just produced.
C20_NothingStale ==
    [][ now' = now =>
          /\ summary' = computeSummary(children')
          /\ optimisations' = computeOptimisations(children', providerSettings', now')
          /\ quote' = generateQuotation(children', quotation', providerSettings') ]_vars

-----------------------------------------------------------------------------
(* Further properties of the quotation (SpecQuote) *)

\* The days of a pattern with hours booked.
AttendedDays(pattern) ==
    { d \in 1..Len(Days) : pattern[Days[d]] # 0 }

\* C21: in every quote weeklyConsumables is consumablesCharge * 5 when
\* includeConsumables is set and 0 otherwise, whatever the child's weekly
\* pattern: the number of days with hours booked does not change it.
C21_ConsumablesForFiveDays ==
    quote.tag = "quote" =>
        quote.weeklyConsumables =
            IF quotation.includeConsumables
            THEN providerSettings.consumablesCharge * 5 * 100
            ELSE 0

\* The quote of a child that attends on a single day, consumables included:
\* 5 times 1.50.
C21_Witness ==
    /\ quote.tag = "quote"
    /\ quotation.includeConsumables
    /\ Cardinality(AttendedDays(quote.child.weeklyPattern)) = 1
    /\ quote.weeklyConsumables = 75000

-----------------------------------------------------------------------------
(* Properties of the entitlement of the roster (SpecEntitlement) *)

\* C22: in every reachable state every child of the roster has an entitlement
\* that is one of the four keys of the registry, so the summary, the
\* optimisations and the quotation never look up an unknown scheme.
C22_EntitlementInRegistry ==
    /\ \A k \in 1..Len(children) :
          children[k].entitlement
              \in {"universal_15", "eligible_2yr", "extended_30", "expanded_under2"}
    /\ summary.tag # "TypeError"
    /\ optimisations.tag # "TypeError"
    /\ quote.tag # "TypeError"

\* A child added through the form after another option of the select was
\* chosen, and taken into the summary.
C22_Witness ==
    /\ \E k \in 1..Len(children) :
          /\ children[k].id = DateNow(0)
          /\ children[k].entitlement = "extended_30"
    /\ summary.tag = "summary"
    /\ summary.totalChildren = Len(children)

-----------------------------------------------------------------------------
(* Further properties of a session (SpecSession) *)

\* C23: in every reachable state quotation.weeksToQuote is a positive
\* integer, at the start (4) and after every sequence of Weeks to Quote
\* inputs, so periodTotal is not negative when weeklyTotal is not.
C23_WeeksToQuotePositive ==
    /\ quotation.weeksToQuote \in Nat \ {0}
    /\ (quote.tag = "quote" /\ quote.weeklyTotal >= 0) => quote.periodTotal >= 0

-----------------------------------------------------------------------------
(* Properties of repeated applications (SpecRepeat) *)

\* Two logged applications read the same children, settings and request.
SameArguments(a, b) ==
    /\ a.children = b.children
    /\ a.providerSettings = b.providerSettings
    /\ a.quotation = b.quotation

-----------------------------------------------------------------------------
(* Properties of the booked hours (SpecWeeklyHours) *)

\* Every value of the pattern is a multiple of a quarter of an hour.
InQuarterHours(pattern) ==
    \A d \in 1..Len(Days) : pattern[Days[d]] % 25 = 0

\* C25 as stated: getWeeklyHours is additive: the booked hours of the pattern
\* merged day by day from two patterns equal the sum of their booked hours.
C25_Additive ==
    \A i \in 1..Len(calls) :
        calls[i].tag = "getWeeklyHours" =>
            calls[i].merged = DoubleAdd(calls[i].first, calls[i].second)

\* C25, amended: getWeeklyHours adds the five weekday values as doubles, from
\* Monday to Friday.  To two decimals its result is the sum of the values
\* and is additive over patterns merged day by day; for patterns in quarters
\* of an hour it is so exactly.
C25_AdditiveInQuarterHours ==
    \A i \in 1..Len(calls) :
        calls[i].tag = "getWeeklyHours" =>
            LET first == BookedOf(children[1])
                second == BookedOf(children[2])
            IN  /\ ToHundredths(calls[i].first) = first
                /\ ToHundredths(calls[i].second) = second
                /\ ToHundredths(calls[i].merged) = first + second
                /\ ToHundredths(DoubleAdd(calls[i].first, calls[i].second))
                       = first + second
                /\ ( /\ InQuarterHours(children[1].weeklyPattern)
                     /\ InQuarterHours(children[2].weeklyPattern) ) =>
                       /\ calls[i].first = DoubleOf(first, Hundredths)
                       /\ calls[i].second = DoubleOf(second, Hundredths)
                       /\ calls[i].merged = DoubleOf(first + second, Hundredths)
                       /\ calls[i].merged
                              = DoubleAdd(calls[i].first, calls[i].second)

\* 3.25 hours on one day merged with 2.25, 0.5, 0.75, 0 and 1 hours: 7.75.
C25_Witness ==
    /\ calls # << >>
    /\ calls[1].tag = "getWeeklyHours"
    /\ children[1].weeklyPattern = Pattern(325, 0, 0, 0, 0)
    /\ children[2].weeklyPattern = Pattern(225, 50, 75, 0, 100)
    /\ calls[1].merged = DoubleOf(775, Hundredths)

-----------------------------------------------------------------------------
(* Properties of the selection (SpecSelection) *)

\* quotation.childId is the id of a child of the roster.
SelectedInRoster(ch, q) ==
    /\ q.childId.kind = "number"
    /\ \E i \in 1..Len(ch) : ch[i].id = q.childId.value

\* C26: there is a quote if and only if quotation.childId is the id of a
\* child of the roster; when the selected child is deleted the quote becomes
\* null, and selecting the placeholder gives null.
C26_QuoteIffSelectedInRoster ==
    /\ [](quote # Null <=> SelectedInRoster(children, quotation))
    /\ [][ ( /\ SelectedInRoster(children, quotation)
             /\ quotation' = quotation
             /\ children' = Without(children, quotation.childId.value) )
               => quote' = Null ]_vars
    /\ [][ ( /\ quotation' # quotation
             /\ quotation'.childId.kind # "number" ) => quote' = Null ]_vars

\* Oliver was selected and then deleted: a roster is left, no quote.
C26_Witness ==
    /\ quotation.childId = NumId(2)
    /\ children # << >>
    /\ \A i \in 1..Len(children) : children[i].id # 2
    /\ quote = Null

-----------------------------------------------------------------------------
(* Stretched against term-time funding (SpecFunded) *)

\* The weekly bookings of the children the roster can hold.
PoolBookings == { getWeeklyHours(c.weeklyPattern) : c \in ChildPool }

-----------------------------------------------------------------------------
(* The frame of updateChildHours (SpecUpdate) *)

\* C28: updateChildHours(id, h) sets hoursUsed to max(0, h) for the children
\* whose id is id and changes nothing else: the other children, the other
\* fields, the order and size of the roster, the provider settings and the
\* quotation request stay as they were; when no child has the id the roster
\* is unchanged.
C28_UpdateChangesOnlyHoursUsed ==
    [][ Len(calls') > Len(calls) =>
          LET call == calls'[Len(calls')] IN
          call.tag = "updateChildHours" =>
              /\ Len(children') = Len(children)
              /\ \A k \in 1..Len(children) :
                    IF children[k].id = call.id
                    THEN children'[k]
                             = [children[k] EXCEPT !.hoursUsed = Max(0, call.hours)]
                    ELSE children'[k] = children[k]
              /\ providerSettings' = providerSettings
              /\ quotation' = quotation
              /\ (\A k \in 1..Len(children) : children[k].id # call.id)
                     => children' = children ]_vars

\* Two children added at one clock reading have had their hours set to 25
\* by one call, beside a child left as it was; then a call for an id that no
\* child has was made.
C28_Witness ==
    /\ Len(calls) = 2
    /\ calls[1] = [tag |-> "updateChildHours", id |-> DateNow(0), hours |-> 2500]
    /\ calls[2] = [tag |-> "updateChildHours", id |-> 99, hours |-> -500]
    /\ \E i, j, k \in 1..Len(children) :
          /\ i < j
          /\ children[i].id = DateNow(0) /\ children[i].hoursUsed = 2500
          /\ children[j].id = DateNow(0) /\ children[j].hoursUsed = 2500
          /\ children[k].id = 3 /\ children[k].hoursUsed = 9600

=============================================================================
